---------------------------- MODULE Spec2Model ----------------------------
(***************************************************************************)
(* Model of src/bugs_dashboard.py: one Streamlit script run (refresh       *)
(* button, memoized fetch_issues, data cleaning, school filter, KPIs,      *)
(* resolution-time bins, client/module summary) as the action Run, with    *)
(* the clock and the Report Source as its environment.                     *)
(*                                                                         *)
(* Conventions.  An optional value (JSON null, pandas NaN/None) is the     *)
(* empty sequence None, a present value x is <<x>>.  Times are seconds     *)
(* relative to the instant of Init.  Averages that the script rounds to    *)
(* one decimal are kept in tenths (35 stands for 3.5).                     *)
(***************************************************************************)
EXTENDS Integers, Sequences, FiniteSets, TLC

VARIABLES
    source,            \* what the Report Source answers to a GET now
    now,               \* the clock, seconds
    cache,             \* st.cache_data entry of fetch_issues: None or <<[value, at]>>
    outcome,           \* last run: "none" | "ok" | "nodata" | "exception"
    refreshed,         \* last run: the Refresh Data button was pressed
    contacted,         \* last run: fetch_issues' body ran (the source was contacted)
    response,          \* last run: kind of answer the source gave, "cached" on a hit
    snapshot,          \* last run: the frame fetch_issues returned (raw records)
    select_all,        \* last run: the Select All checkbox
    selected_schools,  \* last run: the selection (a set of school names)
    df,                \* last run: the working frame handed to the aggregation
    kpi,               \* last run: None or <<the five KPI metrics>>
    resolved_issues,   \* last run: the resolved rows with their bins
    module_summary     \* last run: the client x module summary rows

vars == << source, now, cache, outcome, refreshed, contacted, response, snapshot,
           select_all, selected_schools, df, kpi, resolved_issues, module_summary >>

None == << >>
Some(x) == << x >>

(***************************************************************************)
(* Bounds and program constants                                            *)
(***************************************************************************)
MaxIssues == 3
MaxTicks == 3
TTL == 3600
SecondsPerDay == 86400
TickSeconds == TTL \div 2

RECURSIVE SumSeq(_)
SumSeq(s) == IF s = << >> THEN 0 ELSE Head(s) + SumSeq(Tail(s))


(***************************************************************************)
(* Refresh button and the memoized fetch (lines 12-35)                     *)
(***************************************************************************)
\* if st.button("Refresh Data"): st.cache_data.clear()
ClearOnRefresh(refresh, c) == IF refresh THEN None ELSE c

\* Fault seeded to test C10: a memo that never expires.
CacheValidNoTtl(c, t) == c # None

\* @st.cache_data(ttl=3600): an entry stored at c.at is served while less than
\* TTL seconds old.
CacheValid(c, t) == c # None /\ t < c[1].at + TTL

\* Fault seeded to test C4: the issues are read from wherever the body holds
\* them, so a document without the issues key is not a failure.
fetch_issues_lenient(src) ==
    IF src.kind \in {"ok", "nokey"} THEN src.issues ELSE << >>

\* fetch_issues' body: any exception of the request, of response.json() or of
\* data['issues'] is caught and an empty frame returned.
fetch_issues(src) == IF src.kind = "ok" THEN src.issues ELSE << >>

(***************************************************************************)
(* Data cleaning (lines 37-46)                                             *)
(***************************************************************************)
\* json.loads on the additional_data texts of the model: the texts that parse,
\* with what .get('user_id') gives; any other text raises JSONDecodeError.
JsonUserId == ("{\"user_id\": 7}" :> Some(7)) @@ ("{}" :> None)

\* pd.to_datetime raises on a date it cannot parse, json.loads on a text that
\* is not JSON; neither call is guarded, so the script run ends there.
CleaningRaises(frame) ==
    \E i \in 1..Len(frame) :
        \/ ~frame[i].reported_date.parseable
        \/ /\ frame[i].additional_data # None
           /\ frame[i].additional_data[1] \notin DOMAIN JsonUserId

\* (datetime.now(timezone.utc) - reported_date).dt.days: whole days, floored
days_open(t, r) == (t - r.reported_date.at) \div SecondsPerDay

\* df['assigned_to'].notna() & (df['assigned_to'] != '')
is_assigned(r) == r.assigned_to # None /\ r.assigned_to[1] # ""

user_id(r) ==
    IF r.additional_data # None THEN JsonUserId[r.additional_data[1]] ELSE None

(***************************************************************************)
(* Client labelling (lines 57-69)                                          *)
(***************************************************************************)
host_mapping ==
    (2 :> "test") @@ (3 :> "demo") @@ (4 :> "excellenceacademy") @@
    (5 :> "hhrd") @@ (7 :> "scholastic") @@ (9 :> "test")

\* DataFrame(list of dicts): a host column holding an integer is float64 with
\* NaN for null; a column of nulls only stays an object column of None.
HostColumnIsObject(frame) == \A i \in 1..Len(frame) : frame[i].host = None

\* Series.map(host_mapping): the dict becomes a Series whose index, built from
\* the keys 2,3,4,5,7,9,None, is float64 with NaN for None. A NaN of a float64
\* column finds that key; a None of an object column is looked up as an object,
\* is not equal to NaN and finds nothing. An id that is no key finds nothing.
MapHost(h, objectColumn) ==
    IF h = None
    THEN IF objectColumn THEN None ELSE Some("localhost")
    ELSE IF h[1] \in DOMAIN host_mapping THEN Some(host_mapping[h[1]]) ELSE None

\* .fillna('Unknown')
client(r, objectColumn) ==
    LET m == MapHost(r.host, objectColumn) IN IF m = None THEN "Unknown" ELSE m[1]

\* One cleaned row: the raw record with its derived columns.
Enrich(r, t, objectColumn) ==
    [ id |-> r.id, module_name |-> r.module_name, status |-> r.status,
      assigned_to |-> r.assigned_to, host |-> r.host,
      reported_date |-> r.reported_date, additional_data |-> r.additional_data,
      days_open |-> days_open(t, r), is_assigned |-> is_assigned(r),
      user_id |-> user_id(r),
      client |-> client(r, objectColumn),
      school_name |-> client(r, objectColumn) ]

Cleaned(frame, t) ==
    [ i \in 1..Len(frame) |-> Enrich(frame[i], t, HostColumnIsObject(frame)) ]

(***************************************************************************)
(* School filter (lines 71-104)                                            *)
(***************************************************************************)
\* sorted(df['school_name'].unique().tolist()), as a set
unique_schools(frame) == { frame[i].school_name : i \in 1..Len(frame) }

\* if selected_schools and not select_all: df = df[isin(selected_schools)]
\* elif select_all: (keep all)          -- and nothing at all otherwise
ApplyFilter(frame, sa, sel) ==
    IF sel # {} /\ ~sa
    THEN SelectSeq(frame, LAMBDA r : r.school_name \in sel)
    ELSE frame

(***************************************************************************)
(* KPIs (lines 106-128)                                                    *)
(***************************************************************************)
\* len(df[df['status'] == value])
StatusCount(frame, value) == Len(SelectSeq(frame, LAMBDA r : r.status = value))

\* round(x, 1) of the float x = num/den >= 0, in tenths: to the nearest tenth,
\* an exact half to the even tenth.
RoundTenths(num, den) ==
    LET q == (10 * num) \div den
        r == (10 * num) % den
    IN  IF 2 * r < den THEN q
        ELSE IF 2 * r > den THEN q + 1
        ELSE IF q % 2 = 0 THEN q ELSE q + 1

\* df[df['status'].isin(['inprogress', 'unassigned'])]
Unresolved(frame) ==
    SelectSeq(frame, LAMBDA r : r.status \in {"inprogress", "unassigned"})

\* Fault seeded to test C8: the mean taken over every row, resolved or not.
avg_days_all(frame) ==
    IF frame = << >> THEN 0
    ELSE RoundTenths(SumSeq([ i \in 1..Len(frame) |-> frame[i].days_open ]),
                     Len(frame))

\* round(unresolved_df['days_open'].mean(), 1) if not unresolved_df.empty else 0
avg_days(frame) ==
    LET u == Unresolved(frame)
    IN  IF u = << >> THEN 0
        ELSE RoundTenths(SumSeq([ i \in 1..Len(u) |-> u[i].days_open ]), Len(u))

\* Fault seeded to test C5: the in-progress KPI counting every unresolved row.
KpisOverlapping(frame) ==
    [ total      |-> Len(frame),
      resolved   |-> StatusCount(frame, "resolved"),
      inprogress |-> Len(Unresolved(frame)),
      unassigned |-> StatusCount(frame, "unassigned"),
      avg_days   |-> avg_days(frame) ]

Kpis(frame) ==
    [ total      |-> Len(frame),
      resolved   |-> StatusCount(frame, "resolved"),
      inprogress |-> StatusCount(frame, "inprogress"),
      unassigned |-> StatusCount(frame, "unassigned"),
      avg_days   |-> avg_days(frame) ]

(***************************************************************************)
(* Resolution-time bins (lines 169-180)                                    *)
(***************************************************************************)
\* bins=[0, 1, 3, 7, 14, 30, 60, inf]; the last edge is infinite
bins == << 0, 1, 3, 7, 14, 30, 60 >>
labels == << "<1 day", "1-3 days", "3-7 days", "1-2 weeks", "2-4 weeks",
             "1-2 months", ">2 months" >>

\* pd.cut(x, bins, labels) with its defaults right=True, include_lowest=False:
\* bin i is (bins[i], bins[i+1]], and a value in no bin gets NaN.
resolution_category(x) ==
    LET hit == { i \in 1..Len(bins) :
                    /\ bins[i] < x
                    /\ (i < Len(bins) => x <= bins[i + 1]) }
    IN  IF hit = {} THEN None ELSE Some(labels[CHOOSE i \in hit : TRUE])

\* df[df['status'] == 'resolved'] with resolution_time_days and its category
ResolvedIssues(frame) ==
    LET res == SelectSeq(frame, LAMBDA r : r.status = "resolved")
    IN  [ i \in 1..Len(res) |->
            [ id |-> res[i].id, client |-> res[i].client,
              module_name |-> res[i].module_name,
              resolution_time_days |-> res[i].days_open,
              resolution_category |-> resolution_category(res[i].days_open) ] ]

(***************************************************************************)
(* Client & module summary (lines 344-351)                                 *)
(***************************************************************************)
\* Assigned=('assigned_to', lambda x: x.notna().sum())
AssignedCount(group) == Len(SelectSeq(group, LAMBDA r : r.assigned_to # None))

\* df.groupby(['client', 'module_name']).agg(...).round(1)
ModuleSummary(frame) ==
    { LET group == SelectSeq(frame,
                       LAMBDA r : r.client = k[1] /\ r.module_name = k[2])
      IN  [ Client        |-> k[1],
            Module        |-> k[2],
            Total_Issues  |-> Len(group),
            Resolved      |-> StatusCount(group, "resolved"),
            In_Progress   |-> StatusCount(group, "inprogress"),
            Unassigned    |-> StatusCount(group, "unassigned"),
            Assigned      |-> AssignedCount(group),
            Avg_Days_Open |-> RoundTenths(
                SumSeq([ i \in 1..Len(group) |-> group[i].days_open ]), Len(group)) ]
      : k \in { << frame[i].client, frame[i].module_name >> : i \in 1..Len(frame) } }

(***************************************************************************)
(* One script run (lines 12-376)                                           *)
(***************************************************************************)
\* The run's outputs when the frame is empty (st.warning("No data available"))
\* or when the cleaning raised: nothing was filtered or aggregated.
NoOutputs(what) ==
    /\ outcome' = what
    /\ select_all' = FALSE
    /\ selected_schools' = {}
    /\ df' = << >>
    /\ kpi' = None
    /\ resolved_issues' = << >>
    /\ module_summary' = {}

Run(refresh) ==
    LET c0      == ClearOnRefresh(refresh, cache)
        hit     == CacheValid(c0, now)
        loaded  == IF hit THEN c0[1].value ELSE fetch_issues(source)
    IN  /\ refreshed' = refresh
        /\ contacted' = ~hit
        /\ response' = IF hit THEN "cached" ELSE source.kind
        /\ cache' = IF hit THEN c0 ELSE Some([ value |-> loaded, at |-> now ])
        /\ snapshot' = loaded
        /\ IF loaded = << >>
           THEN NoOutputs("nodata")
           ELSE IF CleaningRaises(loaded)
           THEN NoOutputs("exception")
           ELSE LET cleaned == Cleaned(loaded, now)
                IN  \E sa \in BOOLEAN :
                    \E sel \in (IF sa THEN { unique_schools(cleaned) }
                                      ELSE SUBSET unique_schools(cleaned)) :
                        LET work == ApplyFilter(cleaned, sa, sel)
                        IN  /\ outcome' = "ok"
                            /\ select_all' = sa
                            /\ selected_schools' = sel
                            /\ df' = work
                            /\ kpi' = Some(Kpis(work))
                            /\ resolved_issues' = ResolvedIssues(work)
                            /\ module_summary' = ModuleSummary(work)
        /\ UNCHANGED << source, now >>


(***************************************************************************)
(* Environment: the clock and the Report Source                            *)
(***************************************************************************)
Tick ==
    /\ now + TickSeconds <= MaxTicks * TickSeconds
    /\ now' = now + TickSeconds
    /\ UNCHANGED << source, cache, outcome, refreshed, contacted, response,
                    snapshot, select_all, selected_schools, df, kpi,
                    resolved_issues, module_summary >>

SourceChange(s) ==
    /\ s # source
    /\ source' = s
    /\ UNCHANGED << now, cache, outcome, refreshed, contacted, response,
                    snapshot, select_all, selected_schools, df, kpi,
                    resolved_issues, module_summary >>

(***************************************************************************)
(* Inputs                                                                  *)
(***************************************************************************)
Statuses == << "resolved", "inprogress", "unassigned" >>

ReportedAt(secondsAgo) == [ parseable |-> TRUE, at |-> 0 - secondsAgo ]
Unparseable == [ parseable |-> FALSE, at |-> 0 ]

Raw(st, h, d, a, x, m) ==
    [ module_name |-> m, status |-> st, assigned_to |-> a, host |-> h,
      reported_date |-> d, additional_data |-> x ]

\* Every status with a mapped and with a null host, reported now and a day
\* ago; the unassigned ones carry no assignee and no additional_data.
CoreTemplates ==
    [ i \in 1..12 |->
        LET st == Statuses[((i - 1) % 3) + 1]
        IN  Raw(st,
                IF ((i - 1) \div 3) % 2 = 0 THEN Some(5) ELSE None,
                ReportedAt(((i - 1) \div 6) * SecondsPerDay),
                IF st = "unassigned" THEN None ELSE Some("dev1"),
                IF st = "unassigned" THEN None ELSE Some("{\"user_id\": 7}"),
                "attendance") ]

\* An unmapped host; an empty assignee in another module; a text that is not
\* JSON; a date that cannot be parsed.
EdgeTemplates ==
    << Raw("inprogress", Some(99), ReportedAt(0), Some("dev1"),
           Some("{\"user_id\": 7}"), "attendance"),
       Raw("unassigned", Some(5), ReportedAt(0), Some(""), Some("{}"), "fees"),
       Raw("inprogress", Some(5), ReportedAt(0), Some("dev1"),
           Some("not json"), "attendance"),
       Raw("resolved", Some(5), Unparseable, Some("dev1"),
           Some("{\"user_id\": 7}"), "attendance") >>

Templates == CoreTemplates \o EdgeTemplates

WithId(r, i) ==
    [ id |-> i, module_name |-> r.module_name, status |-> r.status,
      assigned_to |-> r.assigned_to, host |-> r.host,
      reported_date |-> r.reported_date, additional_data |-> r.additional_data ]

\* The issue lists of up to MaxIssues records drawn from Templates, up to the
\* order of their rows (no stage modelled here depends on it).
IssueLists ==
    UNION { { [ i \in 1..n |-> WithId(Templates[f[i]], i) ] :
                f \in { g \in [ 1..n -> 1..Len(Templates) ] :
                          \A i \in 1..(n - 1) : g[i] <= g[i + 1] } } :
            n \in 0..MaxIssues }

\* Two issues reported half an hour short of a day ago: the next tick of the
\* clock makes them one day old.
AgeingIssues ==
    LET d == ReportedAt(SecondsPerDay - TickSeconds)
    IN  << WithId(Raw("resolved", Some(5), d, Some("dev1"), None, "attendance"), 1),
           WithId(Raw("inprogress", None, d, None, None, "fees"), 2) >>

\* What the Report Source can answer: the request raises; the body is not
\* JSON; the document holds the issues but not under the key issues; a
\* document with no issue; a document with AgeingIssues.
Sources ==
    { [ kind |-> "raise",   issues |-> << >> ],
      [ kind |-> "notjson", issues |-> << >> ],
      [ kind |-> "nokey",   issues |-> AgeingIssues ],
      [ kind |-> "ok",      issues |-> << >> ],
      [ kind |-> "ok",      issues |-> AgeingIssues ] }

(***************************************************************************)
(* Specifications                                                          *)
(***************************************************************************)
InitRun ==
    /\ now = 0
    /\ cache = None
    /\ outcome = "none"
    /\ refreshed = FALSE
    /\ contacted = FALSE
    /\ response = "none"
    /\ snapshot = << >>
    /\ select_all = FALSE
    /\ selected_schools = {}
    /\ df = << >>
    /\ kpi = None
    /\ resolved_issues = << >>
    /\ module_summary = {}

Init == source \in Sources /\ InitRun

Next ==
    \/ \E refresh \in BOOLEAN : Run(refresh)
    \/ Tick
    \/ \E s \in Sources : SourceChange(s)

\* The script re-run, with the clock and the source changing between runs.
Spec == Init /\ [][Next]_vars

InitPipeline ==
    /\ source \in { [ kind |-> "ok", issues |-> l ] : l \in IssueLists }
    /\ InitRun

NextPipeline == \E refresh \in BOOLEAN : Run(refresh)

\* The script run on every issue list, at one instant.
SpecPipeline == InitPipeline /\ [][NextPipeline]_vars


(***************************************************************************)
(* Claims                                                                  *)
(***************************************************************************)
Rows == 1..Len(df)
Failures == { "raise", "notjson", "nokey" }

\* The step is a script run: the clock and the source stand still.
RunStep == now' = now /\ source' = source

RECURSIVE DaysOver(_)
DaysOver(S) ==
    IF S = {} THEN 0
    ELSE LET i == CHOOSE j \in S : TRUE IN df[i].days_open + DaysOver(S \ {i})

UnresolvedRows == { i \in Rows : df[i].status # "resolved" }

\* C1: with Select All off and no school selected, the working set handed to
\* the aggregation is empty.
C1_EmptySelectionGivesEmptySet ==
    (outcome = "ok" /\ ~select_all /\ selected_schools = {}) => df = << >>

\* The half-open bin [lo, hi) a value of at least 0 falls in.
HalfOpenLabel(d) ==
    labels[CHOOSE i \in 1..Len(bins) :
              bins[i] <= d /\ (i < Len(bins) => d < bins[i + 1])]

\* C2: every resolved issue with resolution_time_days >= 0 is in exactly the
\* bin [lo, hi) that holds its value: 0 in "<1 day", 1 in "1-3 days", ...
C2_HalfOpenBins ==
    \A i \in 1..Len(resolved_issues) :
        resolved_issues[i].resolution_time_days >= 0 =>
            resolved_issues[i].resolution_category =
                Some(HalfOpenLabel(resolved_issues[i].resolution_time_days))

BadJson(r) ==
    r.additional_data # None /\ r.additional_data[1] \notin DOMAIN JsonUserId

\* C3: a record with a text that is not JSON or with a date that cannot be
\* parsed does not abort the run: the run on a snapshot with records ends
\* normally, the record with the bad text has user_id None, the record with
\* the bad date is left out and every other record is in the working set.
C3_RecordFailuresIsolated ==
    (outcome # "none" /\ snapshot # << >>) =>
        /\ outcome = "ok"
        /\ \A i \in Rows : BadJson(df[i]) => df[i].user_id = None
        /\ select_all =>
              { df[i].id : i \in Rows } =
              { snapshot[i].id : i \in { j \in 1..Len(snapshot) :
                                          snapshot[j].reported_date.parseable } }

\* C4: when the source's answer is a failure (the request raises, the body is
\* not JSON, the document has no issues key) the run ends with the "no data"
\* warning: the frame is empty and nothing was filtered or aggregated.
C4_FetchFailureIsNoData ==
    response \in Failures =>
        /\ snapshot = << >>
        /\ outcome = "nodata"
        /\ df = << >>
        /\ kpi = None
        /\ resolved_issues = << >>
        /\ module_summary = {}

C4_Witness == contacted /\ response = "nokey" /\ outcome = "nodata"

TableLabel(h) ==
    IF h = None THEN "localhost"
    ELSE IF h[1] \in DOMAIN host_mapping THEN host_mapping[h[1]] ELSE "Unknown"

\* C6: after the cleaning every issue's client and school_name are the
\* table's entry for a mapped host, "Unknown" for an unmapped one and
\* "localhost" for a null one.
C6_ClientLabelling ==
    \A i \in Rows :
        /\ df[i].client = TableLabel(df[i].host)
        /\ df[i].school_name = TableLabel(df[i].host)

\* C7: two runs on the same snapshot with the same selection give the same
\* outputs, whenever they are made.
C7_Deterministic ==
    [][ ( /\ outcome = "ok" /\ outcome' = "ok"
          /\ snapshot' = snapshot
          /\ select_all' = select_all
          /\ selected_schools' = selected_schools )
        => ( /\ df' = df
             /\ kpi' = kpi
             /\ resolved_issues' = resolved_issues
             /\ module_summary' = module_summary ) ]_vars

C9_AssignedCountMatchesFlag ==
    \A row \in module_summary :
        row.Assigned =
            Cardinality({ i \in Rows : /\ df[i].client = row.Client
                                       /\ df[i].module_name = row.Module
                                       /\ df[i].is_assigned })

\* C10: a run with the refresh signal contacts the source; a run without it
\* reuses a memoized result less than an hour old without contacting the
\* source; a run without it contacts the source when there is no memoized
\* result or the memoized one has expired.
C10_RefreshThenMemo ==
    [][ RunStep =>
          LET fresh == cache # None /\ now < cache[1].at + TTL
          IN  /\ refreshed' => (contacted' /\ response' = source.kind)
              /\ (~refreshed' /\ fresh) =>
                    /\ ~contacted'
                    /\ snapshot' = cache[1].value
                    /\ cache' = cache
              /\ (~refreshed' /\ ~fresh) =>
                    (contacted' /\ response' = source.kind) ]_vars

C10_Witness ==
    /\ response = "cached"
    /\ ~refreshed
    /\ cache # None
    /\ cache[1].at < now
    /\ snapshot # << >>

=============================================================================
